---- MODULE Spec2Model ----
(***************************************************************************)
(* A model of the AI Task Manager Worker (src/src/index.ts), its command   *)
(* parser (src/src/utils.ts) and the TaskManager Durable Object (listed in *)
(* src/README.md, lines 111-175).                                          *)
(*                                                                         *)
(* Text is a sequence of one-character strings, indexed from 0 in the      *)
(* JavaScript helpers below exactly as the source indexes it.  Two         *)
(* characters stand for code units that have no ASCII spelling:            *)
(*   "U+0130"  LATIN CAPITAL LETTER I WITH DOT ABOVE                       *)
(*   "U+0307"  COMBINING DOT ABOVE                                         *)
(* String.prototype.toLowerCase maps U+0130 to the two code units          *)
(* "i" U+0307, the one unconditional lower-case mapping that changes the   *)
(* length of a string.                                                     *)
(***************************************************************************)
EXTENDS Integers, Sequences, FiniteSets, Bags, TLC

\* ------------------------------------------------------------------ bounds

\* Most words after the command keyword in a message given to the parser.
MaxBodyWords == 4
\* Most HTTP requests the Worker receives in one behaviour.
MaxRequests == 3
\* Most requests the Worker has in flight at one time.
MaxInFlight == 2

\* ------------------------------------------------ JavaScript string helpers

\* JavaScript's undefined, as a value no text is equal to.
undefined == <<"undefined">>

LowerLetters == <<"a","b","c","d","e","f","g","h","i","j","k","l","m",
                  "n","o","p","q","r","s","t","u","v","w","x","y","z">>
UpperLetters == <<"A","B","C","D","E","F","G","H","I","J","K","L","M",
                  "N","O","P","Q","R","S","T","U","V","W","X","Y","Z">>

\* The characters String.prototype.trim removes and the regular
\* expression class \s matches, among those the model's texts use.
WhiteSpace == {" ", "\t"}

\* toLowerCase of one code unit: a sequence, because U+0130 becomes two.
LowerOf(c) ==
  IF \E i \in 1..26 : UpperLetters[i] = c
    THEN << LowerLetters[CHOOSE i \in 1..26 : UpperLetters[i] = c] >>
    ELSE IF c = "U+0130" THEN << "i", "U+0307" >> ELSE << c >>

\* Canonicalize of a case-insensitive regular expression without the u
\* flag: the code unit's toUpperCase when that is one code unit.
Canonicalize(c) ==
  IF \E i \in 1..26 : LowerLetters[i] = c
    THEN UpperLetters[CHOOSE i \in 1..26 : LowerLetters[i] = c]
    ELSE c

RECURSIVE toLowerCase(_)
toLowerCase(s) ==
  IF s = << >> THEN << >> ELSE LowerOf(Head(s)) \o toLowerCase(Tail(s))

RECURSIVE trimStart(_)
trimStart(s) ==
  IF s # << >> /\ Head(s) \in WhiteSpace THEN trimStart(Tail(s)) ELSE s

RECURSIVE trimEnd(_)
trimEnd(s) ==
  IF s # << >> /\ s[Len(s)] \in WhiteSpace
    THEN trimEnd(SubSeq(s, 1, Len(s) - 1)) ELSE s

trim(s) == trimEnd(trimStart(s))

startsWith(s, p) == Len(s) >= Len(p) /\ SubSeq(s, 1, Len(p)) = p

endsWith(s, p) ==
  Len(s) >= Len(p) /\ SubSeq(s, Len(s) - Len(p) + 1, Len(s)) = p

\* s.lastIndexOf(p): the search runs from the end; -1 when p is absent.
RECURSIVE lastIndexFrom(_, _, _)
lastIndexFrom(s, p, i) ==
  IF i < 0 THEN -1
  ELSE IF SubSeq(s, i + 1, i + Len(p)) = p THEN i
  ELSE lastIndexFrom(s, p, i - 1)

lastIndexOf(s, p) == lastIndexFrom(s, p, Len(s) - Len(p))

Clamp(n, len) == IF n < 0 THEN 0 ELSE IF n > len THEN len ELSE n

\* s.substring(a, b): both ends clamped to 0..length, swapped if reversed.
substring(s, a, b) ==
  LET ca == Clamp(a, Len(s))
      cb == Clamp(b, Len(s))
      lo == IF ca <= cb THEN ca ELSE cb
      hi == IF ca <= cb THEN cb ELSE ca
  IN  SubSeq(s, lo + 1, hi)

\* s.substring(a)
substringFrom(s, a) == substring(s, a, Len(s))

Math_max(a, b) == IF a >= b THEN a ELSE b

\* ---------------------------------------------------------------- literals

S_list == <<"l","i","s","t">>
S_list_tasks == <<"l","i","s","t"," ","t","a","s","k","s">>
S_show_tasks == <<"s","h","o","w"," ","t","a","s","k","s">>
S_add == <<"a","d","d">>
S_add_task == <<"a","d","d"," ","t","a","s","k">>
S_create == <<"c","r","e","a","t","e">>
S_by == <<" ","b","y"," ">>
S_on == <<" ","o","n"," ">>

\* ------------------------------------------------------------ parseCommand

\* Number of leading white-space characters of s.
RECURSIVE SpaceRun(_)
SpaceRun(s) ==
  IF s # << >> /\ Head(s) \in WhiteSpace THEN 1 + SpaceRun(Tail(s)) ELSE 0

\* Whether s begins with the keyword kw, compared as /.../i compares.
MatchesIgnoreCase(s, kw) ==
  /\ Len(s) >= Len(kw)
  /\ \A i \in 1..Len(kw) : Canonicalize(s[i]) = Canonicalize(kw[i])

\* Length of the match of /^\s*(add task|add|create)\s+/i at the start of
\* s, or -1.  \s* is greedy and no keyword begins with white space, so
\* giving characters back never helps; the alternatives are tried in the
\* order written, each needing one or more white-space characters after it.
KeywordMatchLength(s) ==
  LET lead == SpaceRun(s)
      rest == SubSeq(s, lead + 1, Len(s))
      After(kw) == SubSeq(rest, Len(kw) + 1, Len(rest))
      Ok(kw) == MatchesIgnoreCase(rest, kw) /\ SpaceRun(After(kw)) >= 1
      Total(kw) == lead + Len(kw) + SpaceRun(After(kw))
  IN  IF Ok(S_add_task) THEN Total(S_add_task)
      ELSE IF Ok(S_add) THEN Total(S_add)
      ELSE IF Ok(S_create) THEN Total(S_create)
      ELSE -1

\* trimmed.replace(/^\s*(add task|add|create)\s+/i, "")
StripKeyword(s) ==
  IF KeywordMatchLength(s) < 0 THEN s
  ELSE SubSeq(s, KeywordMatchLength(s) + 1, Len(s))

\* A value is truthy unless it is undefined or the empty string.
Truthy(v) == v # undefined /\ v # << >>

parseCommand(message) ==
  LET trimmed == trim(message)
      lower == toLowerCase(trimmed)
  IN
  IF lower = S_list \/ lower = S_list_tasks \/ startsWith(lower, S_show_tasks)
    THEN [type |-> "list"]
  ELSE IF \/ startsWith(lower, S_add \o <<" ">>)
          \/ startsWith(lower, S_add_task \o <<" ">>)
          \/ startsWith(lower, S_create \o <<" ">>)
    THEN
      LET remainder0 == StripKeyword(trimmed)
          byIndex == lastIndexOf(toLowerCase(remainder0), S_by)
          onIndex == lastIndexOf(toLowerCase(remainder0), S_on)
          idx == Math_max(byIndex, onIndex)
          keywordLength == IF byIndex > onIndex THEN 4 ELSE 4
          dueDate == IF idx >= 0
                       THEN trim(substringFrom(remainder0, idx + keywordLength))
                       ELSE undefined
          remainder == IF idx >= 0
                         THEN trim(substring(remainder0, 0, idx))
                         ELSE remainder0
          title == trim(remainder)
      IN  IF Len(title) = 0 THEN [type |-> "none"]
          ELSE [type |-> "add", title |-> title,
                dueDate |-> IF Truthy(dueDate) THEN dueDate ELSE undefined]
  ELSE [type |-> "none"]

\* ------------------------------------------------- inputs of parseCommand

\* The messages given to the parser: an optional command keyword, then up
\* to MaxBodyWords words, separated by single spaces except for at most one
\* gap that is a tab or a double space, the whole optionally padded.
Heads == { << >>, S_add, <<"A","d","d">>, S_add_task, S_create, S_list,
           S_list_tasks, S_show_tasks }
BodyWords == { <<"X">>, <<"b","y">>, <<"O","n">>, <<"U+0130">> }
OddGaps == { <<"\t">>, <<" "," ">> }
Pads == { << >>, <<" ">> }
Bodies == UNION { [1..n -> BodyWords] : n \in 0..MaxBodyWords }

RECURSIVE JoinWords(_, _, _, _)
JoinWords(words, i, odd, oddGap) ==
  IF i > Len(words) THEN << >>
  ELSE (IF i = odd THEN oddGap ELSE <<" ">>) \o words[i]
         \o JoinWords(words, i + 1, odd, oddGap)

\* odd = 0: every gap is one space.
Compose(head, words, odd, oddGap, pad) ==
  LET joined == JoinWords(words, 1, odd, oddGap)
  IN  pad \o head \o (IF head = << >> THEN trimStart(joined) ELSE joined) \o pad

Messages ==
  { Compose(h, b, k, g, p) :
      h \in Heads, b \in Bodies, k \in 0..MaxBodyWords, g \in OddGaps, p \in Pads }

\* ------------------------------------------------------------------- state

VARIABLES
  storage,      \* Durable Object id -> that object's storage (key -> value)
  inflight,     \* the bag of requests in flight: each the handler's (and
                \* the Durable Object's) position and local values
  returned,     \* the request this step answered, with its response, or Idle
  requests,     \* number of requests received so far
  uuids,        \* number of identifiers crypto.randomUUID has produced
  clock,        \* the time new Date() reads
  added,        \* history: user identifier -> the tasks the store's adds made
                \* on behalf of that user answered 201 with, in order
  parseInput,   \* the message given to parseCommand (parser specification)
  parseOutput   \* the Command it returned

vars == << storage, inflight, returned, requests, uuids, clock, added, parseInput, parseOutput >>

Pending == [type |-> "pending"]

\* --------------------------------------------------------------- the inputs

U_u == <<"u">>
U_slash == <<"a","/","b">>
U_query == <<"a","?","b">>
U_hash == <<"a","#","b">>
UserIds == { U_u, U_slash, U_query, U_hash }

M_addX == <<"a","d","d"," ","X">>
M_addYbyZ == <<"A","d","d"," ","Y"," ","b","y"," ","Z">>
M_list == <<"l","i","s","t">>
M_hi == <<"h","i">>
ChatMessages == { M_addX, M_addYbyZ, M_list, M_hi }

JsString(s) == [t |-> "string", v |-> s]
JsNumber == [t |-> "number", v |-> << >>]
JsMissing == [t |-> "undefined", v |-> << >>]
typeof(x) == x.t

\* What request.json() of the chat request yields: a thrown SyntaxError or
\* the parsed value (null, or an object whose two properties are looked up).
Unparseable == [kind |-> "unparseable", userId |-> JsMissing, message |-> JsMissing]
JsonNull == [kind |-> "null", userId |-> JsMissing, message |-> JsMissing]
JsonObject(u, m) == [kind |-> "object", userId |-> u, message |-> m]

\* Every message under three of the user identifiers, one add under the
\* fourth.
ValidBodies ==
  { JsonObject(JsString(u), JsString(m)) : u \in UserIds \ {U_hash}, m \in ChatMessages }
  \cup { JsonObject(JsString(U_hash), JsString(M_addX)) }
InvalidBodies ==
  { JsonObject(JsNumber, JsString(M_addX)),
    JsonObject(JsString(U_u), JsMissing) }

HttpRequests ==
  { [method |-> "POST", pathname |-> "/api/chat", body |-> b] :
      b \in ValidBodies \cup InvalidBodies \cup { Unparseable, JsonNull } }
  \cup { [method |-> "GET", pathname |-> "/", body |-> Unparseable],
         [method |-> "GET", pathname |-> "/api/chat", body |-> Unparseable] }

\* What env.AI.run does: throw, or resolve with one of the result shapes.
AiResults ==
  { [kind |-> "string", text |-> << "hello" >>],
    [kind |-> "object", response |-> << "hello" >>],
    [kind |-> "object", choices |-> << [message |-> [content |-> << "hello" >>]] >>],
    [kind |-> "object"] }
AiOutcomes == { [threw |-> TRUE] } \cup { [threw |-> FALSE, result |-> x] : x \in AiResults }

\* -------------------------------------------------------------- responses

\* A Response: its status, and its body either as the value JSON.stringify
\* was given (json = TRUE) or as plain text.  threw marks an exception that
\* leaves the handler instead of a Response.
JsonResponse(status, value) ==
  [status |-> status, json |-> TRUE, value |-> value, threw |-> FALSE]
TextResponse(status, text) ==
  [status |-> status, json |-> FALSE, value |-> [text |-> text], threw |-> FALSE]
Thrown == [status |-> 0, json |-> FALSE, value |-> [text |-> << >>], threw |-> TRUE]
NoResponse == [status |-> 0, json |-> FALSE, value |-> [text |-> << >>], threw |-> FALSE]

UNAVAILABLE == << "The AI model is currently unavailable. Please try again later." >>

\* Mutant of OuterCatch: the outer catch is missing, the exception escapes.
OuterCatch_Rethrow(outcome) == outcome

\* The outer try/catch of the chat endpoint: whatever is thrown inside it
\* becomes the 400 "Bad Request" response.
OuterCatch(outcome) ==
  IF outcome.threw THEN TextResponse(400, << "Bad Request" >>) ELSE outcome

\* Mutant of InnerCatch: the inner catch is missing.
InnerCatch_Rethrow(outcome) == outcome

\* Mutant of InnerCatch: the response is built without `status: 503`.
InnerCatch_Status200(outcome) ==
  IF outcome.threw THEN JsonResponse(200, [reply |-> UNAVAILABLE]) ELSE outcome

\* The try/catch around the model call.
InnerCatch(outcome) ==
  IF outcome.threw THEN JsonResponse(503, [reply |-> UNAVAILABLE]) ELSE outcome

\* JSON.stringify of an object leaves out the properties that are
\* undefined; the value is kept as the object a later JSON.parse yields.
JSON_stringify_task(t) ==
  IF t.dueDate = undefined
    THEN [x \in DOMAIN t \ {"dueDate"} |-> t[x]]
    ELSE t

RECURSIVE JSON_stringify_tasks(_)
JSON_stringify_tasks(ts) ==
  IF ts = << >> THEN << >>
  ELSE << JSON_stringify_task(Head(ts)) >> \o JSON_stringify_tasks(Tail(ts))

\* obj.dueDate of a parsed object: undefined when the property is absent.
DueDateOf(obj) == IF "dueDate" \in DOMAIN obj THEN obj.dueDate ELSE undefined

\* ---------------------------------------------------------- Durable Object

\* Mutant of idFromName: every name is given the same id.
idFromName_Shared(name) == << "id", << >> >>

\* env.TASK_MANAGER.idFromName(name): the same id for the same name,
\* different ids for different names.
idFromName(name) == << "id", name >>

Ids == { idFromName(u) : u \in UserIds }

\* new URL(url).pathname of "https://task" + rest: rest up to the first
\* "?" or "#".
RECURSIVE pathname(_)
pathname(rest) ==
  IF rest = << >> \/ Head(rest) \in {"?", "#"} THEN << >>
  ELSE << Head(rest) >> \o pathname(Tail(rest))

\* `https://task/${userId}/add` and `.../list`, without the origin.
StoreUrl(userId, op) == <<"/">> \o userId \o <<"/">> \o op

P_add == <<"/","a","d","d">>
P_list == <<"/","l","i","s","t">>

\* (await this.state.storage.get("tasks")) || []
storage_get(id) ==
  IF "tasks" \in DOMAIN storage[id] THEN storage[id]["tasks"] ELSE << >>

\* Which branch of TaskManager.fetch a request takes.
StoreRoute(method, url) ==
  IF method = "POST" /\ endsWith(pathname(url), P_add) THEN "add"
  ELSE IF method = "GET" /\ endsWith(pathname(url), P_list) THEN "list"
  ELSE "notfound"

\* Mutant of push: unshift, the new task goes to the front.
push_Front(tasks, task) == << task >> \o tasks

\* tasks.push(task)
push(tasks, task) == Append(tasks, task)

\* The Task the add branch builds from the parsed body.
NewTask(body, uuid, now) ==
  [id |-> uuid,
   title |-> body.title,
   dueDate |-> IF Truthy(DueDateOf(body)) THEN DueDateOf(body) ELSE undefined,
   createdAt |-> now]

\* ------------------------------------------------------------------ Worker

\* `Added task "${cmd.title}"${cmd.dueDate ? ` due by ${cmd.dueDate}` : ''}.`
AddReply(cmd) ==
  << "Added task \"" >> \o cmd.title \o << "\"" >>
    \o (IF Truthy(cmd.dueDate) THEN << " due by " >> \o cmd.dueDate ELSE << >>)
    \o << "." >>

\* tasks.map((t, idx) => `${idx + 1}. ${t.title}${...}`).join('\n')
RECURSIVE ListLines(_, _)
ListLines(ts, idx) ==
  IF idx >= Len(ts) THEN << >>
  ELSE (IF idx > 0 THEN << "\n" >> ELSE << >>)
         \o << ToString(idx + 1), ". " >> \o ts[idx + 1].title
         \o (IF Truthy(DueDateOf(ts[idx + 1]))
               THEN << " (due " >> \o DueDateOf(ts[idx + 1]) \o << ")" >>
               ELSE << >>)
         \o ListLines(ts, idx + 1)

ListReply(ts) ==
  IF Len(ts) > 0 THEN ListLines(ts, 0) ELSE << "You have no tasks." >>

\* The Worker after `await stub.fetch(.../add)`: the store's response is
\* not looked at.
AfterAdd(cmd, storeResponse) ==
  IF storeResponse.threw THEN Thrown
  ELSE JsonResponse(200, [reply |-> AddReply(cmd)])

\* The Worker after `await stub.fetch(.../list)`: listRes.json() throws
\* when the body is not JSON.
AfterList(storeResponse) ==
  IF storeResponse.threw \/ ~storeResponse.json THEN Thrown
  ELSE JsonResponse(200, [reply |-> ListReply(storeResponse.value),
                          tasks |-> storeResponse.value])

AfterStore(cmd, storeResponse) ==
  OuterCatch(IF cmd.type = "add" THEN AfterAdd(cmd, storeResponse)
             ELSE AfterList(storeResponse))

\* typeof result === "string" ? result
\*   : (result.response ?? result?.choices?.[0]?.message?.content ?? JSON.stringify(result))
ExtractReply(result) ==
  IF result.kind = "string" THEN result.text
  ELSE IF "response" \in DOMAIN result THEN result.response
  ELSE IF "choices" \in DOMAIN result /\ Len(result.choices) > 0
    THEN result.choices[1].message.content
  ELSE << "JSON.stringify(result)" >>

\* The Worker after `await env.AI.run(...)`.
AfterAi(outcome) ==
  OuterCatch(InnerCatch(IF outcome.threw THEN Thrown
                        ELSE JsonResponse(200, [reply |-> ExtractReply(outcome.result)])))

\* JSON.stringify({ title: cmd.title, dueDate: cmd.dueDate })
AddBody(cmd) ==
  IF cmd.dueDate = undefined THEN [title |-> cmd.title]
  ELSE [title |-> cmd.title, dueDate |-> cmd.dueDate]

Idle ==
  [pc |-> "idle", in |-> [method |-> "", pathname |-> "", body |-> Unparseable],
   userId |-> << >>, cmd |-> [type |-> "none"],
   method |-> "", url |-> << >>, body |-> [title |-> << >>],
   tasks |-> << >>, storeResponse |-> NoResponse, response |-> NoResponse,
   storeCalls |-> 0, reads |-> 0, writes |-> 0, aiCalls |-> 0, aiThrew |-> FALSE]

Done(r, response) == [r EXCEPT !.pc = "done", !.response = response]

\* The Worker's continuation once the store has answered (or thrown).
Answered(r, storeResponse) ==
  Done([r EXCEPT !.storeResponse = storeResponse], AfterStore(r.cmd, storeResponse))

\* Mutant of InvalidBody: the message is not checked.
InvalidBody_UserIdOnly(body) == typeof(body.userId) # "string"

\* typeof userId !== "string" || typeof message !== "string"
InvalidBody(body) ==
  typeof(body.userId) # "string" \/ typeof(body.message) # "string"

\* The handler from its entry to the first store or model call, or to its
\* response when it makes none.
FetchStart(in) ==
  LET r0 == [Idle EXCEPT !.in = in]
  IN
  IF in.pathname = "/" /\ in.method = "GET"
    THEN Done(r0, TextResponse(200, << "HTML_PAGE" >>))
  ELSE IF in.pathname = "/api/chat" /\ in.method = "POST" THEN
    IF in.body.kind \in {"unparseable", "null"}
      THEN Done(r0, OuterCatch(Thrown))
    ELSE IF InvalidBody(in.body)
      THEN Done(r0, TextResponse(400, << "Invalid request body" >>))
    ELSE
      LET userId == in.body.userId.v
          cmd == parseCommand(in.body.message.v)
          r1 == [r0 EXCEPT !.userId = userId, !.cmd = cmd]
      IN  IF cmd.type = "add"
            THEN [r1 EXCEPT !.pc = "store_get", !.method = "POST",
                            !.url = StoreUrl(userId, <<"a","d","d">>),
                            !.body = AddBody(cmd), !.storeCalls = 1]
          ELSE IF cmd.type = "list"
            THEN [r1 EXCEPT !.pc = "store_get", !.method = "GET",
                            !.url = StoreUrl(userId, <<"l","i","s","t">>),
                            !.storeCalls = 1]
          ELSE [r1 EXCEPT !.pc = "ai_run"]
  ELSE Done(r0, TextResponse(404, << "Not found" >>))

\* FetchStart of every request the model draws, computed once.
Started == [in \in HttpRequests |-> FetchStart(in)]

\* ----------------------------------------------------------------- actions

Init ==
  /\ storage = [id \in Ids |-> << >>]
  /\ inflight = EmptyBag
  /\ returned = Idle
  /\ requests = 0
  /\ uuids = 0
  /\ clock = 0
  /\ added = [u \in UserIds |-> << >>]
  /\ parseInput = << >>
  /\ parseOutput = Pending

InFlight == BagToSet(inflight)

\* The request q moves on to q1: it has returned when q1 is done, and else
\* waits in flight at its next await.
Step(q, q1) ==
  LET others == inflight (-) SetToBag({q})
  IN  IF q1.pc = "done"
        THEN inflight' = others /\ returned' = q1
        ELSE inflight' = others (+) SetToBag({q1}) /\ returned' = Idle

\* The Worker receives a request and runs to its first await on the store
\* or the model, or to its response when it makes no such call.
Begin ==
  /\ requests < MaxRequests
  /\ BagCardinality(inflight) < MaxInFlight
  /\ \E in \in HttpRequests :
       LET q1 == Started[in]
       IN  IF q1.pc = "done"
             THEN inflight' = inflight /\ returned' = q1
             ELSE inflight' = inflight (+) SetToBag({q1}) /\ returned' = Idle
  /\ requests' = requests + 1
  /\ clock' = clock + 1
  /\ UNCHANGED << storage, uuids, added, parseInput, parseOutput >>

\* TaskManager.fetch up to its first branch: the storage read, which may
\* fail, then the list or the not-found response, or on to the add branch.
StorageGet(q) ==
  LET id == idFromName(q.userId)
      q1 == [q EXCEPT !.reads = @ + 1]
      route == StoreRoute(q.method, q.url)
  IN
  /\ q.pc = "store_get"
  /\ \E ok \in BOOLEAN :
       Step(q,
         IF ~ok THEN Answered(q1, Thrown)
         ELSE IF route = "add"
           THEN [q1 EXCEPT !.pc = "store_json", !.tasks = storage_get(id)]
         ELSE IF route = "list"
           THEN Answered(q1, JsonResponse(200, JSON_stringify_tasks(storage_get(id))))
         ELSE Answered(q1, TextResponse(404, << "Not found" >>)))
  /\ UNCHANGED << storage, requests, uuids, clock, added, parseInput, parseOutput >>

\* `await request.json()` in the add branch: the body the Worker sent
\* has arrived.
RequestJson(q) ==
  /\ q.pc = "store_json"
  /\ Step(q, [q EXCEPT !.pc = "store_put"])
  /\ UNCHANGED << storage, requests, uuids, clock, added, parseInput, parseOutput >>

\* The rest of the add branch: build the task, push it on the array read
\* earlier, put the array (which may fail), answer 201; then the Worker's
\* reply.
StoragePut(q) ==
  LET id == idFromName(q.userId)
      task == NewTask(q.body, uuids + 1, clock)
      tasks == push(q.tasks, task)
      q1 == [q EXCEPT !.writes = @ + 1, !.tasks = tasks]
  IN
  /\ q.pc = "store_put"
  /\ uuids' = uuids + 1
  /\ \E ok \in BOOLEAN :
       IF ok
         THEN /\ storage' = [storage EXCEPT ![id] = [k \in {"tasks"} |-> tasks]]
              /\ added' = [added EXCEPT ![q.userId] = Append(@, task)]
              /\ Step(q, Answered(q1, JsonResponse(201, JSON_stringify_task(task))))
         ELSE /\ UNCHANGED << storage, added >>
              /\ Step(q, Answered(q1, Thrown))
  /\ UNCHANGED << requests, clock, parseInput, parseOutput >>

\* `await env.AI.run(...)` and the reply made of its outcome.
AiRun(q) ==
  /\ q.pc = "ai_run"
  /\ \E outcome \in AiOutcomes :
       Step(q, Done([q EXCEPT !.aiCalls = @ + 1, !.aiThrew = outcome.threw],
                    AfterAi(outcome)))
  /\ UNCHANGED << storage, requests, uuids, clock, added, parseInput, parseOutput >>

Next ==
  \/ Begin
  \/ \E q \in InFlight : StorageGet(q)
  \/ \E q \in InFlight : RequestJson(q)
  \/ \E q \in InFlight : StoragePut(q)
  \/ \E q \in InFlight : AiRun(q)

Spec == Init /\ [][Next]_vars

\* Requests handled one after another: a request begins only when no other
\* is in flight.
SeqBegin ==
  /\ inflight = EmptyBag
  /\ Begin

SeqNext ==
  \/ SeqBegin
  \/ \E q \in InFlight : StorageGet(q)
  \/ \E q \in InFlight : RequestJson(q)
  \/ \E q \in InFlight : StoragePut(q)
  \/ \E q \in InFlight : AiRun(q)

SeqSpec == Init /\ [][SeqNext]_vars

\* The parser alone: a message is drawn, parseCommand is applied to it.
ParseInit ==
  /\ storage = [id \in Ids |-> << >>]
  /\ inflight = EmptyBag
  /\ returned = Idle
  /\ requests = 0
  /\ uuids = 0
  /\ clock = 0
  /\ added = [u \in UserIds |-> << >>]
  /\ parseInput \in Messages
  /\ parseOutput = Pending

ParseCommand ==
  /\ parseOutput = Pending
  /\ parseOutput' = parseCommand(parseInput)
  /\ UNCHANGED << storage, inflight, returned, requests, uuids, clock, added, parseInput >>

ParseNext == ParseCommand

ParseSpec == ParseInit /\ [][ParseNext]_vars

\* ------------------------------------------------------------------ claims

Elems(seq) == { seq[i] : i \in 1..Len(seq) }

IsPrefix(a, b) == Len(a) <= Len(b) /\ SubSeq(b, 1, Len(a)) = a

\* The persisted task list of user u.
ListOf(u) == storage_get(idFromName(u))

\* q is a POST /api/chat that has been answered.
IsChat(q) == q.pc = "done" /\ q.in.method = "POST" /\ q.in.pathname = "/api/chat"

\* q carried a JSON object with a text userId and a text message.
IsValidChat(q) ==
  /\ IsChat(q)
  /\ q.in.body.kind = "object"
  /\ q.in.body.userId.t = "string"
  /\ q.in.body.message.t = "string"

\* q answered 200 to a list command.
IsListed(q) == IsValidChat(q) /\ q.cmd.type = "list" /\ q.response.status = 200

\* Only tasks added under u are stored for u, and a list under u returns
\* only tasks added under u.
OwnTasksOnly ==
  /\ \A u \in UserIds : Elems(ListOf(u)) \subseteq Elems(added[u])
  /\ IsListed(returned) =>
       Elems(returned.response.value.tasks)
         \subseteq { JSON_stringify_task(t) : t \in Elems(added[returned.userId]) }

\* C1: user isolation.  In every step, the task list stored for a user
\* changes only when an add made under that same user returns; and in every
\* state each user's stored list holds only tasks added under that user and
\* a list request returns only tasks added under its own user (so a list
\* under a user with no add returns the empty list).
C1_UserIsolation ==
  [][ /\ \A u \in UserIds :
           ListOf(u)' # ListOf(u)
             => returned'.cmd.type = "add" /\ returned'.userId = u
      /\ OwnTasksOnly' ]_vars

\* A list under one user returns the empty list after an add under another.
C1_Witness ==
  /\ IsListed(returned)
  /\ returned.response.value.tasks = << >>
  /\ \E x \in UserIds \ {returned.userId} : ListOf(x) # << >>

\* C2: insertion order.  When requests are handled one after another, a
\* list request returns exactly the tasks of the user's completed adds, one
\* per add, in the order the adds were made; the empty list if there were
\* none.
C2_InsertionOrder ==
  IsListed(returned) =>
    returned.response.value.tasks = JSON_stringify_tasks(added[returned.userId])

\* add X, add Y, list: the list is [X, Y].
C2_Witness ==
  /\ IsListed(returned)
  /\ Len(returned.response.value.tasks) = 2
  /\ returned.response.value.tasks[1].title = <<"X">>
  /\ returned.response.value.tasks[2].title = <<"Y">>

\* C3: append-only store.  In every step each user's persisted task list
\* is extended: the list before the step is a prefix of the list after it.
C3_AppendOnly ==
  [][ \A u \in UserIds : IsPrefix(ListOf(u), ListOf(u)') ]_vars

\* q is a POST /api/chat whose JSON object lacks a text userId or a text
\* message.
IsMalformed(q) ==
  /\ IsChat(q)
  /\ q.in.body.kind = "object"
  /\ (q.in.body.userId.t # "string" \/ q.in.body.message.t # "string")

NoCalls(q) == q.storeCalls = 0 /\ q.reads = 0 /\ q.writes = 0 /\ q.aiCalls = 0

\* C4: input validation.  A POST /api/chat whose userId or message is
\* missing or not text is answered 400 without any store request or model
\* call, and the step that answers it leaves every stored list unchanged.
C4_InputValidation ==
  [][ IsMalformed(returned') =>
        /\ returned'.response.status = 400
        /\ ~returned'.response.threw
        /\ NoCalls(returned')
        /\ storage' = storage ]_vars

\* A malformed request is answered 400 while a task is stored.
C4_Witness ==
  /\ IsMalformed(returned)
  /\ returned.response.status = 400
  /\ \E u \in UserIds : ListOf(u) # << >>

\* C5: model failure gives 503.  A valid none-intent chat request whose
\* model call throws is answered 503 with the fixed reply, nothing is
\* thrown, and the request makes no store request, read or write.
C5_ModelFailure503 ==
  (IsValidChat(returned) /\ returned.aiThrew) =>
    /\ returned.cmd.type = "none"
    /\ returned.response.status = 503
    /\ returned.response.json
    /\ returned.response.value.reply = UNAVAILABLE
    /\ ~returned.response.threw
    /\ returned.storeCalls = 0 /\ returned.reads = 0 /\ returned.writes = 0

\* The model call threw while another user's task was stored.
C5_Witness ==
  /\ IsValidChat(returned)
  /\ returned.aiThrew
  /\ returned.response.status = 503
  /\ \E u \in UserIds : ListOf(u) # << >>

\* C6 as stated: a failed model call is answered with a 2xx status
\* carrying the fixed unavailability message.
C6_TransportSuccess ==
  (IsValidChat(returned) /\ returned.aiThrew) =>
    /\ returned.response.status \in 200..299
    /\ returned.response.value.reply = UNAVAILABLE
    /\ ~returned.response.threw

\* C6, amended: a failed model call is answered with status 503, which is
\* not a 2xx status, by a JSON body whose only property is the fixed
\* unavailability reply; the error is not propagated.
C6_ModelFailureNotSuccess ==
  (IsValidChat(returned) /\ returned.aiThrew) =>
    /\ returned.response.status = 503
    /\ returned.response.status \notin 200..299
    /\ returned.response.json
    /\ DOMAIN returned.response.value = {"reply"}
    /\ returned.response.value.reply = UNAVAILABLE
    /\ ~returned.response.threw

\* The model call threw and the fixed reply was returned.
C6_Witness ==
  /\ IsValidChat(returned)
  /\ returned.aiThrew
  /\ returned.aiCalls = 1
  /\ returned.response.value.reply = UNAVAILABLE

\* q was answered 200 with the add confirmation.
IsAddConfirmed(q) ==
  /\ IsValidChat(q)
  /\ q.cmd.type = "add"
  /\ q.response.status = 200
  /\ q.response.value.reply = AddReply(q.cmd)

\* C7: add confirmation implies persistence.  When a chat request is
\* answered 200 with 'Added task "<title>"...', the store of that userId
\* performed an add, and its list now ends with a task whose title and
\* dueDate are the parsed ones.
C7_ConfirmedAddPersisted ==
  IsAddConfirmed(returned) =>
    /\ returned.writes = 1
    /\ returned.storeResponse.status = 201
    /\ ListOf(returned.userId) # << >>
    /\ LET t == ListOf(returned.userId)[Len(ListOf(returned.userId))]
       IN  t.title = returned.cmd.title /\ t.dueDate = returned.cmd.dueDate

\* C8: per-request effect bound.  Every chat request makes at most one
\* store read, one store write and one model call; one that is answered 200
\* for an add made one read and one write and no model call, one answered
\* 200 for a list made one read, no write and no model call; a none intent
\* made one model call and no store read or write.
C8_EffectBound ==
  IsValidChat(returned) =>
    /\ returned.reads <= 1 /\ returned.writes <= 1 /\ returned.aiCalls <= 1
    /\ (returned.cmd.type = "add" /\ returned.response.status = 200)
         => returned.reads = 1 /\ returned.writes = 1 /\ returned.aiCalls = 0
    /\ (returned.cmd.type = "list" /\ returned.response.status = 200)
         => returned.reads = 1 /\ returned.writes = 0 /\ returned.aiCalls = 0
    /\ returned.cmd.type = "none"
         => returned.reads = 0 /\ returned.writes = 0 /\ returned.aiCalls = 1

\* q failed otherwise than by a throwing model call: its body was not
\* JSON, its store request threw, or the store's answer to its list was
\* not JSON.
FailedOtherwise(q) ==
  /\ IsChat(q)
  /\ \/ q.in.body.kind = "unparseable"
     \/ q.storeCalls = 1 /\ q.storeResponse.threw
     \/ q.storeCalls = 1 /\ q.cmd.type = "list" /\ ~q.storeResponse.json

\* C9: any other failure is a 400.  A chat request that failed otherwise
\* than by a throwing model call is answered 400, and no exception leaves
\* the handler.
C9_OtherFailure400 ==
  /\ returned.pc = "done" => ~returned.response.threw
  /\ FailedOtherwise(returned) => returned.response.status = 400

\* The store answered a list with a body that is not JSON, and the chat
\* request was answered 400.
C9_Witness ==
  /\ FailedOtherwise(returned)
  /\ returned.cmd.type = "list"
  /\ ~returned.storeResponse.threw /\ ~returned.storeResponse.json
  /\ returned.response.status = 400

\* The claim's account of the parser, stated on the original text alone.

\* c is the letter k in either case.
IsLetter(c, k) == c = k \/ \E i \in 1..26 : LowerLetters[i] = k /\ UpperLetters[i] = c

\* The first Len(kw) characters of t spell kw in any casing.
SpellsAt(t, from, kw) ==
  /\ from + Len(kw) - 1 <= Len(t)
  /\ \A i \in 1..Len(kw) : IsLetter(t[from + i - 1], kw[i])

\* The ends of the keyword prefixes of t: a keyword, then white space up
\* to, and not including, the next character that is none.
PrefixEnds(t) ==
  { k \in 1..Len(t) :
      \E kw \in { S_add_task, S_add, S_create } :
        /\ SpellsAt(t, 1, kw)
        /\ k > Len(kw)
        /\ \A i \in (Len(kw) + 1)..k : t[i] \in WhiteSpace
        /\ k = Len(t) \/ t[k + 1] \notin WhiteSpace }

Max(S) == CHOOSE x \in S : \A y \in S : y <= x

\* The places of the remainder r where " by " or " on " stands, in any
\* casing.
SplitPoints(r) ==
  { i \in 1..Len(r) : SpellsAt(r, i, S_by) \/ SpellsAt(r, i, S_on) }

\* The Command the claim gives for a message with the add prefix.
Expected(message) ==
  LET t == trim(message)
      r == SubSeq(t, Max(PrefixEnds(t)) + 1, Len(t))
      P == SplitPoints(r)
      title == IF P = {} THEN r ELSE trim(SubSeq(r, 1, Max(P) - 1))
      due == IF P = {} THEN undefined ELSE trim(SubSeq(r, Max(P) + 4, Len(r)))
  IN  IF title = << >> THEN [type |-> "none"]
      ELSE [type |-> "add", title |-> title, dueDate |-> due]

\* The trimmed lower-cased message starts with "add ", "add task " or
\* "create ".
HasAddPrefix(message) ==
  LET lower == toLowerCase(trim(message))
  IN  \/ startsWith(lower, S_add \o <<" ">>)
      \/ startsWith(lower, S_add_task \o <<" ">>)
      \/ startsWith(lower, S_create \o <<" ">>)

\* C10: parser date split.  For a message with the add prefix,
\* parseCommand strips the keyword prefix and splits the remainder at the
\* later of the last " by " and the last " on " of the original text: title
\* before, dueDate after, both trimmed and in the original casing; without
\* either keyword the remainder is the title and dueDate is undefined; the
\* result is none when the title is empty.
C10_ParserDateSplit ==
  (parseOutput # Pending /\ HasAddPrefix(parseInput)) =>
    parseOutput = Expected(parseInput)

\* The same, for the messages in which U+0130 does not occur.
C10_ParserDateSplit_Ascii ==
  (parseOutput # Pending /\ HasAddPrefix(parseInput) /\ "U+0130" \notin Elems(parseInput)) =>
    parseOutput = Expected(parseInput)

\* An add of user u is in flight in the store.
AddInFlight(u) ==
  \E q \in InFlight :
    q.userId = u /\ q.cmd.type = "add" /\ q.pc \in {"store_get", "store_json", "store_put"}

\* C11: no lost update under concurrent adds.  Once every add in flight
\* for a user has returned, whatever the interleaving of the adds' steps
\* (read the list, read the body, append, write the list back), the
\* persisted list holds one task for each add that answered 201: none of
\* them has been overwritten by another.
C11_NoLostUpdate ==
  \A u \in UserIds :
    ~AddInFlight(u) =>
      /\ Len(ListOf(u)) = Len(added[u])
      /\ Elems(added[u]) \subseteq Elems(ListOf(u))

====
